---- MODULE Spec2Model ----
(***************************************************************************)
(* FileSystemResourceLocker and the LockUtils retry engine of the          *)
(* Community Solid Server (src/src/init/setup/SetupHandler.ts).            *)
(*                                                                         *)
(* JavaScript values are modelled as strings: "undefined", "true",         *)
(* "false", "releaseFn" (the release function proper-lockfile's lock       *)
(* resolves with) and the errors by their code ("ELOCKED", ...).  An       *)
(* error is always an Error object (LockRequestState.error?: Error), hence *)
(* truthy.                                                                 *)
(***************************************************************************)
EXTENDS Integers, FiniteSets, Sequences, TLC

\* ------------------------------------------------------------- bounds
\* the largest finite retryCount of a locker, and of a call of the engine alone
MaxRetryCount == 1
MaxEngineRetryCount == 2
\* tries is unbounded when retryCount = -1: there the model stops waking up
\* once tries has reached MaxTries.
MaxTries == 3
\* setJitterTimeout's delay and jitter range over 0..MaxDelay and
\* -1..MaxJitter (and 1000, 100), Math.random() over k / RandomSteps.
MaxDelay == 3
MaxJitter == 4
RandomSteps == 3
\* finalize is called up to MaxFinalize times, by as many processes
MaxFinalize == 2

\* two processes share the lock folder
Callers == {1, 2}
Finalizers == 1..MaxFinalize
RetryCounts == (-1)..MaxRetryCount
EngineRetryCounts == (-1)..MaxEngineRetryCount

\* ------------------------------------------------------------- values
Undefined == "undefined"
ReleaseFn == "releaseFn"
Values == {Undefined, "true", "false", ReleaseFn}
ELOCKED == "ELOCKED"
ENOTACQUIRED == "ENOTACQUIRED"
\* Errors the primitives can reject with: two coded ones the library names,
\* another coded one, and an Error without a code.
Errors == {ELOCKED, ENOTACQUIRED, "EIO", "Error"}
\* The InternalServerError of line 324.
MaxTriesError == "MaxTriesReached"

\* JavaScript truthiness, as used by `if (state.error)`, `if (state.response)`.
Truthy(v) == v \notin {Undefined, "false"}

Paths == {"/alice/foo.ttl", "/bob/bar.ttl"}
NoPath == "-"
lockFolder == ".internal/locks"
md5(path) ==
  CASE path = "/alice/foo.ttl" -> "b24c14e25c51936bf85173c8d64056fe"
    [] path = "/bob/bar.ttl" -> "6797e36e17db561c964747c2863d959d"
    [] OTHER -> "79b16379d782914387c3604035cb0673"
\* toLockfilePath without hash.update(path): the digest of the empty input
toLockfilePathNoUpdate(path) == <<lockFolder, "d41d8cd98f00b204e9800998ecf8427e">>
\* lines 221-225
toLockfilePath(path) == <<lockFolder, md5(path)>>
LockFiles == {toLockfilePath(p) : p \in Paths}

VARIABLES
  locks,       \* lock file -> the caller (process) whose lock it is, 0: no file
  retryCount,  \* attemptSettings.retryCount of the locker / of the engine call
  pc,          \* caller -> "idle" | "call" (fn() of line 309 is called, lock/unlock
               \*   has not acted) | "await" (lock/unlock has acted, fn() has not
               \*   resolved) | "sleep" (awaiting setJitterTimeout, line 311)
  op,          \* caller -> the call in flight or last made
  tries,       \* caller -> retryFunctionUntil's tries
  state,       \* caller -> retryFunctionUntil's state (LockRequestState)
  ret,         \* caller -> how retryFunctionUntil ended
  result,      \* caller -> how acquire/release ended
  calls,       \* caller -> number of fn() invocations of the call (history)
  sleeps,      \* caller -> number of setJitterTimeout calls of the call (history)
  mine,        \* caller -> did it own the path's lock file when the call began (history)
  busy,        \* caller -> did the path's lock file exist at its last lock/unlock (history)
  lastRaw,     \* caller -> what the raw function did on its last resolved invocation
               \*   (history)
  held,        \* caller -> paths between its acquire's success and its release's start
  firstTry,    \* caller -> outcome of the first attempt of its acquire: "ok", "busy";
               \*   "past" once its path was unlocked after the call began (history)
  snap,        \* caller -> lock files before its acquire's lock call (history)
  flight,      \* caller -> what lock/unlock has done and fn() will resolve with
  timer,       \* the last setJitterTimeout call: its arguments, Math.random() and
               \*   the time handed to setTimeout
  folder,      \* does the lock folder exist
  fin,         \* finalize call -> its position, the entries still to remove, its
               \*   outcome
  setup        \* the SetupHandler: its configuration, the storage, the POST of
               \*   each request

vars == <<locks, retryCount, pc, op, tries, state, ret, result, calls, sleeps,
          lastRaw, mine, busy, held, firstTry, snap, flight, timer, folder, fin,
          setup>>
lockerVars == <<locks, result, mine, busy, held, firstTry, snap, flight>>
\* what the locker's acquire/release and the engine's calls leave alone
otherVars == <<folder, fin, setup>>

Files == {f \in LockFiles : locks[f] # 0}

\* ------------------------------------------------------ the retry engine
\* Number.POSITIVE_INFINITY: above every value tries takes in the model
POSITIVE_INFINITY == MaxTries + MaxRetryCount + MaxEngineRetryCount + 2

\* maxTries with the budget off by one (either way), and without the -1 case
maxTriesOffByOne(rc) == IF rc = -1 THEN POSITIVE_INFINITY ELSE rc
maxTriesOneMore(rc) == IF rc = -1 THEN POSITIVE_INFINITY ELSE rc + 2
maxTriesNoInfinity(rc) == rc + 1
\* line 303
maxTries(rc) == IF rc = -1 THEN POSITIVE_INFINITY ELSE rc + 1

\* line 305
InitState == [shouldRetry |-> TRUE, response |-> Undefined, error |-> Undefined]
NoRaw == [ok |-> TRUE, val |-> "-"]
NoRet == [kind |-> "none", val |-> Undefined]
Return(v) == [kind |-> "return", val |-> v]
Throw(e) == [kind |-> "throw", val |-> e]

\* What a raw function can do: resolve with a value or reject with an error.
Resolve(v) == [ok |-> TRUE, val |-> v]
Reject(e) == [ok |-> FALSE, val |-> e]
RawResults == {Resolve(v) : v \in Values} \cup {Reject(e) : e \in Errors}

isCodedError(err) == err \in Errors /\ err # "Error"

\* a stop predicate on the 'already held' code instead
stopOnErrorLocked(err) == isCodedError(err) /\ err = ELOCKED
\* line 181
stopOnError(err) == isCodedError(err) /\ err = ENOTACQUIRED

\* A stop predicate is given by the set of errors it answers true for.
\* toRetryOnError with the rejection dropped, and with the stop test inverted
toRetryOnErrorSwallow(stop, raw) ==
  [shouldRetry |-> FALSE, response |-> IF raw.ok THEN raw.val ELSE Undefined,
   error |-> Undefined]
toRetryOnErrorInverted(stop, raw) ==
  IF raw.ok
  THEN [shouldRetry |-> FALSE, response |-> raw.val, error |-> Undefined]
  ELSE [shouldRetry |-> raw.val \in stop, response |-> Undefined, error |-> raw.val]
\* lines 335-340
toRetryOnError(stop, raw) ==
  IF raw.ok
  THEN [shouldRetry |-> FALSE, response |-> raw.val, error |-> Undefined]
  ELSE [shouldRetry |-> raw.val \notin stop, response |-> Undefined, error |-> raw.val]

\* toRetryOnBoolean retrying a rejection
toRetryOnBooleanRetryThrow(retryValue, raw) ==
  IF raw.ok
  THEN [shouldRetry |-> raw.val = retryValue, response |-> raw.val, error |-> Undefined]
  ELSE [shouldRetry |-> TRUE, response |-> Undefined, error |-> raw.val]
\* lines 349-354
toRetryOnBoolean(retryValue, raw) ==
  IF raw.ok
  THEN [shouldRetry |-> raw.val = retryValue, response |-> raw.val, error |-> Undefined]
  ELSE [shouldRetry |-> FALSE, response |-> Undefined, error |-> raw.val]

\* The calls: the locker's (line 190: by error, stopOnError) and the engine's own.
NoOp == [kind |-> "none", path |-> NoPath, stop |-> {}, retryValue |-> "-"]
StopSet == {e \in Errors : stopOnError(e)}
AcquireOp(p) == [kind |-> "acquire", path |-> p, stop |-> StopSet, retryValue |-> "-"]
ReleaseOp(p) == [kind |-> "release", path |-> p, stop |-> StopSet, retryValue |-> "-"]
ByErrorOp(stop) == [kind |-> "byError", path |-> NoPath, stop |-> stop, retryValue |-> "-"]
ByBooleanOp(b) == [kind |-> "byBoolean", path |-> NoPath, stop |-> {}, retryValue |-> b]

\* The attempt function of a call applied to what its raw function did.
Classify(o, raw) ==
  IF o.kind = "byBoolean" THEN toRetryOnBoolean(o.retryValue, raw)
  ELSE toRetryOnError(o.stop, raw)

\* line 308: the loop condition, on the state and tries it is evaluated with
LoopCondition(st, t) == st.shouldRetry /\ t <= maxTries(retryCount)

\* AfterLoop without its test of tries
AfterLoopAlwaysThrow(t) == Throw(MaxTriesError)
\* lines 320-326: what follows the loop
AfterLoop(t) ==
  IF t > maxTries(retryCount) THEN Throw(MaxTriesError) ELSE Return(Undefined)

\* LoopBody sleeping after a terminal outcome as well
LoopBodySleepOnError(o, t, raw) ==
  LET st == Classify(o, raw) IN
  [state |-> st,
   ret |-> IF st.shouldRetry \/ Truthy(st.error) THEN NoRet
           ELSE IF Truthy(st.response) THEN Return(st.response)
           ELSE AfterLoop(t)]
\* LoopBody without the throw of line 314
LoopBodyNoThrow(o, t, raw) ==
  LET st == Classify(o, raw) IN
  [state |-> st,
   ret |-> IF st.shouldRetry THEN NoRet
           ELSE IF Truthy(st.response) THEN Return(st.response)
           ELSE AfterLoop(t)]
\* lines 309-317: one pass of the loop body: the state fn() yields and how the
\* pass ends (NoRet: it sleeps); a pass that neither sleeps, throws nor returns
\* leaves the loop, whose condition now fails.
LoopBody(o, t, raw) ==
  LET st == Classify(o, raw) IN
  [state |-> st,
   ret |-> IF st.shouldRetry THEN NoRet
           ELSE IF Truthy(st.error) THEN Throw(st.error)
           ELSE IF Truthy(st.response) THEN Return(st.response)
           ELSE AfterLoop(t)]

\* lines 304-305: the loop is entered with tries = 1 and state = InitState
Fresh == [state |-> InitState, tries |-> 1, calls |-> 0, sleeps |-> 0, lastRaw |-> NoRaw]
\* line 312: the sleep is over, tries += 1
Woken(c) ==
  [state |-> state[c], tries |-> tries[c] + 1, calls |-> calls[c],
   sleeps |-> sleeps[c], lastRaw |-> lastRaw[c]]

\* lines 308-326: from the loop condition to the next sleep or to the end of
\* retryFunctionUntil; raw is what fn's raw function does if it is called.
retryFunctionUntil(o, e, raw) ==
  IF LoopCondition(e.state, e.tries)
  THEN LET b == LoopBody(o, e.tries, raw) IN
       [pc |-> IF b.ret = NoRet THEN "sleep" ELSE "idle",
        state |-> b.state, tries |-> e.tries, ret |-> b.ret,
        calls |-> e.calls + 1,
        sleeps |-> IF b.ret = NoRet THEN e.sleeps + 1 ELSE e.sleeps,
        lastRaw |-> raw]
  ELSE [pc |-> "idle", state |-> e.state, tries |-> e.tries, ret |-> AfterLoop(e.tries),
        calls |-> e.calls, sleeps |-> e.sleeps, lastRaw |-> e.lastRaw]

\* ------------------------------------------------- setJitterTimeout
\* Math.random() is random / RandomSteps, in [0, 1)
Randoms == 0..(RandomSteps - 1)

Max(a, b) == IF a >= b THEN a ELSE b
\* Math.floor(Math.random() * jitter), for jitter >= 0
FloorRandomTimes(random, jitter) == (random * jitter) \div RandomSteps

\* calcTime without the Math.max(1, ...) of line 266
calcTimeNoMax(delay, jitter, random) ==
  LET j == IF jitter > 0 THEN FloorRandomTimes(random, jitter) ELSE 0
  IN Max(0, delay + j)
\* lines 265-268: the time handed to setTimeout
calcTime(delay, jitter, random) ==
  LET j == IF jitter > 0 THEN Max(1, FloorRandomTimes(random, jitter)) ELSE 0
  IN Max(0, delay + j)

\* lines 264-270: what a setJitterTimeout(delay, jitter) call hands to
\* setTimeout, with its arguments and its Math.random()
JitterTimeout(delay, jitter, random) ==
  [delay |-> delay, jitter |-> jitter, random |-> random,
   time |-> calcTime(delay, jitter, random)]

\* line 132: attemptDefaults.retryDelay and .retryJitter, the settings of the
\* locker and of the engine's calls
retryDelay == 50
retryJitter == 30

\* The caller's engine variables take the values of n; a pass that sleeps has
\* called setJitterTimeout(retryDelay, retryJitter) (line 311).
Becomes(c, n) ==
  /\ pc' = [pc EXCEPT ![c] = n.pc]
  /\ state' = [state EXCEPT ![c] = n.state]
  /\ tries' = [tries EXCEPT ![c] = n.tries]
  /\ ret' = [ret EXCEPT ![c] = n.ret]
  /\ calls' = [calls EXCEPT ![c] = n.calls]
  /\ sleeps' = [sleeps EXCEPT ![c] = n.sleeps]
  /\ lastRaw' = [lastRaw EXCEPT ![c] = n.lastRaw]
  /\ IF n.pc = "sleep"
     THEN \E random \in Randoms :
            timer' = JitterTimeout(retryDelay, retryJitter, random)
     ELSE timer' = timer

\* ------------------------------------------------- the lock primitive
\* proper-lockfile with retries: 0 (lines 120-130): lock creates the lock file
\* atomically or rejects with ELOCKED; unlock removes the caller's own lock or
\* rejects with ENOTACQUIRED.  Each is the raw result and the locks afterwards.
\* With the lock folder gone (after finalize) nothing can be created in it:
\* lock rejects with another coded error, that of the file system.
lock(c, file) ==
  IF ~folder
  THEN [raw |-> Reject("EIO"), locks |-> locks]
  ELSE IF locks[file] = 0
  THEN [raw |-> Resolve(ReleaseFn), locks |-> [locks EXCEPT ![file] = c]]
  ELSE [raw |-> Reject(ELOCKED), locks |-> locks]
unlock(c, file) ==
  IF locks[file] = c
  THEN [raw |-> Resolve(Undefined), locks |-> [locks EXCEPT ![file] = 0]]
  ELSE [raw |-> Reject(ENOTACQUIRED), locks |-> locks]

\* ------------------------------------------- FileSystemResourceLocker
Pending == [kind |-> "pending", op |-> "-", path |-> NoPath, cause |-> "-"]
Ok(o) == [kind |-> "ok", op |-> o.kind, path |-> o.path, cause |-> "-"]
\* lines 200, 212: new InternalServerError(`Error trying to ... ${path}. ${cause}`)
InternalServerError(o, err) == [kind |-> "fail", op |-> o.kind, path |-> o.path, cause |-> err]
\* Settle without the catch clause: what was thrown is dropped
SettleSwallow(o, r) ==
  IF r.kind = "none" THEN Pending ELSE Ok(o)
\* the try/catch of lines 196-201 and 208-213 around retryUntilError
Settle(o, r) ==
  IF r.kind = "none" THEN Pending
  ELSE IF r.kind = "return" THEN Ok(o)
  ELSE InternalServerError(o, r.val)

NoSnap == [ok |-> FALSE, path |-> NoPath, files |-> {}]
\* no setJitterTimeout call, no finalize call, no SetupHandler yet
NoTimer == [delay |-> 0, jitter |-> 0, random |-> 0, time |-> -1]
NoFin == [pc |-> "idle", called |-> FALSE, todo |-> {}, result |-> "none",
          existed |-> FALSE, failed |-> {}, quiet |-> TRUE]
NoSetup == [made |-> FALSE]

\* line 309: fn() is called: the attempt is in flight
Called(e) ==
  [pc |-> "call", state |-> e.state, tries |-> e.tries, ret |-> NoRet,
   calls |-> e.calls + 1, sleeps |-> e.sleeps, lastRaw |-> e.lastRaw]
\* the loop as it stood when the attempt in flight was called
InFlight(c) ==
  [state |-> state[c], tries |-> tries[c], calls |-> calls[c] - 1,
   sleeps |-> sleeps[c], lastRaw |-> lastRaw[c]]

\* lines 189-190, 198, 210: retryUntilError on lock or unlock, from the loop
\* condition to the call of fn() or, the condition failing, to the end of
\* acquire/release.  begin: the call starts here (else it wakes up from a
\* sleep).
retryUntilError(c, o, e, begin) ==
  LET n == IF LoopCondition(e.state, e.tries) THEN Called(e)
           ELSE retryFunctionUntil(o, e, NoRaw)
  IN
  /\ Becomes(c, n)
  /\ result' = [result EXCEPT ![c] = Settle(o, n.ret)]
  /\ held' = [held EXCEPT ![c] =
       IF begin /\ o.kind = "release" THEN @ \ {o.path} ELSE @]
  /\ firstTry' = [firstTry EXCEPT ![c] = IF begin THEN "none" ELSE @]
  /\ snap' = [snap EXCEPT ![c] =
       IF ~begin THEN @
       ELSE IF o.kind = "acquire" THEN [ok |-> TRUE, path |-> o.path, files |-> Files]
       ELSE IF /\ @.path = o.path
               /\ op[c] = AcquireOp(o.path) /\ result[c] = Ok(op[c])
            THEN @
       ELSE NoSnap]
  /\ UNCHANGED <<locks, busy, flight>>

\* lines 193-202: acquire(identifier), up to its first call of lock.
\* Any caller acquires any path, one it holds included.
acquire(c, p) ==
  /\ pc[c] = "idle"
  /\ op' = [op EXCEPT ![c] = AcquireOp(p)]
  /\ mine' = [mine EXCEPT ![c] = locks[toLockfilePath(p)] = c]
  /\ retryUntilError(c, AcquireOp(p), Fresh, TRUE)
  /\ UNCHANGED retryCount
  /\ UNCHANGED otherVars

\* lines 204-214: release(identifier), up to its first call of unlock.
\* Any caller releases any path: unlock is called whoever holds the lock.
release(c, p) ==
  /\ pc[c] = "idle"
  /\ op' = [op EXCEPT ![c] = ReleaseOp(p)]
  /\ mine' = [mine EXCEPT ![c] = locks[toLockfilePath(p)] = c]
  /\ retryUntilError(c, ReleaseOp(p), Fresh, TRUE)
  /\ UNCHANGED retryCount
  /\ UNCHANGED otherVars

\* lines 198, 210: the lock or unlock that fn() called acts on the lock
\* folder; its promise is not yet resolved
CallFn(c) ==
  /\ pc[c] = "call"
  /\ op[c].kind \in {"acquire", "release"}
  /\ LET o == op[c]
         file == toLockfilePath(o.path)
         r == IF o.kind = "acquire" THEN lock(c, file) ELSE unlock(c, file)
         unlocked == o.kind = "release" /\ r.raw.ok
     IN
     /\ locks' = r.locks
     /\ flight' = [flight EXCEPT ![c] = r.raw]
     /\ busy' = [busy EXCEPT ![c] = locks[file] # 0]
     /\ firstTry' = [d \in Callers |->
          IF d # c
          THEN (IF unlocked /\ op[d] = AcquireOp(o.path) /\ firstTry[d] # "none"
                THEN "past" ELSE firstTry[d])
          ELSE IF o.kind = "acquire" /\ calls[c] = 1
               THEN (IF r.raw.ok THEN "ok" ELSE "busy")
          ELSE firstTry[d]]
     /\ snap' = [d \in Callers |->
          IF d # c /\ r.locks # locks THEN NoSnap ELSE snap[d]]
  /\ pc' = [pc EXCEPT ![c] = "await"]
  /\ UNCHANGED <<retryCount, op, tries, state, ret, result, calls, sleeps,
                 lastRaw, mine, held, timer>>
  /\ UNCHANGED otherVars

\* lines 309-317: fn() resolves with the state of what lock/unlock did; the
\* pass ends in a sleep or acquire/release ends
AwaitFn(c) ==
  /\ pc[c] = "await"
  /\ op[c].kind \in {"acquire", "release"}
  /\ LET n == retryFunctionUntil(op[c], InFlight(c), flight[c]) IN
     /\ Becomes(c, n)
     /\ result' = [result EXCEPT ![c] = Settle(op[c], n.ret)]
     /\ held' = [held EXCEPT ![c] =
          IF op[c].kind = "acquire" /\ n.ret.kind = "return"
          THEN @ \cup {op[c].path} ELSE @]
  /\ flight' = [flight EXCEPT ![c] = NoRaw]
  /\ UNCHANGED <<retryCount, op, mine, locks, busy, firstTry, snap>>
  /\ UNCHANGED otherVars

\* lines 311-312 and on: the sleep of a pending acquire/release is over
Wake(c) ==
  /\ pc[c] = "sleep"
  /\ retryCount = -1 => tries[c] < MaxTries
  /\ op[c].kind \in {"acquire", "release"}
  /\ retryUntilError(c, op[c], Woken(c), FALSE)
  /\ UNCHANGED <<retryCount, op, mine>>
  /\ UNCHANGED otherVars

Idle ==
  /\ locks = [f \in LockFiles |-> 0]
  /\ pc = [c \in Callers |-> "idle"]
  /\ op = [c \in Callers |-> NoOp]
  /\ tries = [c \in Callers |-> 1]
  /\ state = [c \in Callers |-> InitState]
  /\ ret = [c \in Callers |-> NoRet]
  /\ result = [c \in Callers |-> Pending]
  /\ calls = [c \in Callers |-> 0]
  /\ sleeps = [c \in Callers |-> 0]
  /\ lastRaw = [c \in Callers |-> NoRaw]
  /\ mine = [c \in Callers |-> FALSE]
  /\ busy = [c \in Callers |-> FALSE]
  /\ held = [c \in Callers |-> {}]
  /\ firstTry = [c \in Callers |-> "none"]
  /\ snap = [c \in Callers |-> NoSnap]
  /\ flight = [c \in Callers |-> NoRaw]
  /\ timer = NoTimer
  /\ folder = TRUE
  /\ fin = [k \in Finalizers |-> NoFin]
  /\ setup = NoSetup

\* line 175: the locker is constructed with its attemptSettings
Init == Idle /\ retryCount \in RetryCounts

Next ==
  \E c \in Callers :
    \/ \E p \in Paths : acquire(c, p)
    \/ \E p \in Paths : release(c, p)
    \/ CallFn(c)
    \/ AwaitFn(c)
    \/ Wake(c)

Spec == Init /\ [][Next]_vars

\* ------------------------------------- the retry engine on its own
\* One retryFunctionUntil call at a time on an arbitrary raw function, wrapped
\* by either adapter.
EngineCallers == {1}
StopPredicates == {{}} \cup {{e} : e \in Errors}

\* retryFunctionUntil(toRetryOnError(stop, fn), settings), to its first sleep or end
CallByError(c, stop) ==
  /\ pc[c] = "idle"
  /\ op' = [op EXCEPT ![c] = ByErrorOp(stop)]
  /\ \E raw \in RawResults : Becomes(c, retryFunctionUntil(ByErrorOp(stop), Fresh, raw))
  /\ UNCHANGED retryCount
  /\ UNCHANGED lockerVars
  /\ UNCHANGED otherVars

\* retryFunctionUntil(toRetryOnBoolean(b, fn), settings), to its first sleep or end
CallByBoolean(c, b) ==
  /\ pc[c] = "idle"
  /\ op' = [op EXCEPT ![c] = ByBooleanOp(b)]
  /\ \E raw \in RawResults : Becomes(c, retryFunctionUntil(ByBooleanOp(b), Fresh, raw))
  /\ UNCHANGED retryCount
  /\ UNCHANGED lockerVars
  /\ UNCHANGED otherVars

\* the sleep of that call is over
RawWake(c) ==
  /\ pc[c] = "sleep"
  /\ retryCount = -1 => tries[c] < MaxTries
  /\ \E raw \in RawResults : Becomes(c, retryFunctionUntil(op[c], Woken(c), raw))
  /\ UNCHANGED <<retryCount, op>>
  /\ UNCHANGED lockerVars
  /\ UNCHANGED otherVars

NextRetry ==
  \E c \in EngineCallers :
    \/ \E stop \in StopPredicates : CallByError(c, stop)
    \/ \E b \in {"true", "false"} : CallByBoolean(c, b)
    \/ RawWake(c)

InitRetry == Idle /\ retryCount \in EngineRetryCounts

SpecRetry == InitRetry /\ [][NextRetry]_vars

\* Every sleep returns: the timer of setJitterTimeout fires (line 269).
SpecRetryFair ==
  SpecRetry /\ \A c \in EngineCallers : WF_vars(RawWake(c))

\* ------------------------------------------------------------ finalize
\* finalize() runs in a process that shuts down, next to the callers and to
\* the finalize calls of the other processes on the same lock folder.  fin[k]
\* is the k-th finalize call:
\*   pc: "idle" (not called yet, or ended), "readdir" (pathExists has
\*     answered true, readdir has not answered), "sweep" (between readdir's
\*     answer and the last rmdir);
\*   todo: the entries readdir listed that the loop has not removed;
\*   result: "ok", or the code of the error finalize rejected with.
\* History: called; existed: what pathExists answered; failed: the entries
\*   whose rmdir was rejected; quiet: the folder was there at the readdir and
\*   at each rmdir so far, and held exactly the entries still to remove then.
FinOk == "ok"
ENOENT == "ENOENT"
ENOTEMPTY == "ENOTEMPTY"

\* fs-extra's pathExists, readdir and rmdir on the lock folder (lines 244-248)
pathExists == folder
\* readdir of a folder that is gone rejects
readdir ==
  IF folder
  THEN [ok |-> TRUE, entries |-> Files, err |-> "-"]
  ELSE [ok |-> FALSE, entries |-> {}, err |-> ENOENT]
\* rmdir of an entry: the locks afterwards, or the error it rejects with
rmdirEntry(f) ==
  IF locks[f] # 0
  THEN [ok |-> TRUE, locks |-> [locks EXCEPT ![f] = 0], err |-> "-"]
  ELSE [ok |-> FALSE, locks |-> locks, err |-> ENOENT]
\* rmdir of the lock folder, which must be there and empty
rmdirFolder ==
  IF ~folder
  THEN [ok |-> FALSE, folder |-> folder, err |-> ENOENT]
  ELSE IF Files = {}
  THEN [ok |-> TRUE, folder |-> FALSE, err |-> "-"]
  ELSE [ok |-> FALSE, folder |-> folder, err |-> ENOTEMPTY]

finalizeUnchanged ==
  UNCHANGED <<retryCount, pc, op, tries, state, ret, result, calls, sleeps,
              lastRaw, mine, busy, held, firstTry, snap, flight, timer, setup>>

\* line 244: the test of pathExists's answer d: readdir is next, or finalize
\* ends
finalizeBegin(d) ==
  IF d THEN [pc |-> "readdir", result |-> "none"]
  ELSE [pc |-> "idle", result |-> FinOk]

\* lines 242-244: finalize() is called, pathExists answers.  The calls are
\* numbered in the order they are made; a call may begin while others run.
finalize(k) ==
  /\ ~fin[k].called
  /\ k > 1 => fin[k - 1].called
  /\ LET b == finalizeBegin(pathExists) IN
     fin' = [fin EXCEPT ![k] = [NoFin EXCEPT
       !.called = TRUE, !.pc = b.pc, !.result = b.result, !.existed = pathExists]]
  /\ UNCHANGED <<locks, folder>>
  /\ finalizeUnchanged

\* line 245: readdir answers: a rejection ends finalize, else the loop begins
FinalizeReaddir(k) ==
  /\ fin[k].pc = "readdir"
  /\ LET r == readdir IN
     fin' = [fin EXCEPT ![k] = [@ EXCEPT
       !.pc = IF r.ok THEN "sweep" ELSE "idle",
       !.todo = r.entries,
       !.result = IF r.ok THEN "none" ELSE r.err,
       !.quiet = @ /\ folder]]
  /\ UNCHANGED <<locks, folder>>
  /\ finalizeUnchanged

\* line 246: the loop removes its next entry, in the order readdir gave
\* (any); a rejection ends finalize (the loop has no try/catch)
FinalizeRmdir(k) ==
  /\ fin[k].pc = "sweep"
  /\ \E f \in fin[k].todo :
       LET r == rmdirEntry(f) IN
       /\ locks' = r.locks
       /\ fin' = [fin EXCEPT ![k] = [@ EXCEPT
            !.pc = IF r.ok THEN "sweep" ELSE "idle",
            !.todo = IF r.ok THEN @ \ {f} ELSE @,
            !.result = IF r.ok THEN "none" ELSE r.err,
            !.quiet = @ /\ folder /\ Files = fin[k].todo,
            !.failed = IF r.ok THEN @ ELSE @ \cup {f}]]
  /\ UNCHANGED folder
  /\ finalizeUnchanged

\* line 248: the loop is over, the folder itself is removed and finalize ends
FinalizeRmdirFolder(k) ==
  /\ fin[k].pc = "sweep"
  /\ fin[k].todo = {}
  /\ LET r == rmdirFolder IN
     /\ folder' = r.folder
     /\ fin' = [fin EXCEPT ![k] = [@ EXCEPT
          !.pc = "idle",
          !.result = IF r.ok THEN FinOk ELSE r.err,
          !.quiet = @ /\ folder /\ Files = {}]]
  /\ UNCHANGED locks
  /\ finalizeUnchanged

\* lines 173-178: a process constructs its locker on the lock folder, from
\* the configuration the processes share (the same attemptSettings):
\* ensureDirSync creates the folder if it is missing
NewFileSystemResourceLocker ==
  /\ folder' = TRUE
  /\ UNCHANGED <<locks, fin>>
  /\ finalizeUnchanged

\* one process takes and releases locks next to those that shut down
FinalCallers == {1}

NextFinal ==
  \/ \E c \in FinalCallers :
       \/ \E p \in Paths : acquire(c, p)
       \/ \E p \in Paths : release(c, p)
       \/ CallFn(c)
       \/ AwaitFn(c)
       \/ Wake(c)
  \/ \E k \in Finalizers :
       \/ finalize(k)
       \/ FinalizeReaddir(k)
       \/ FinalizeRmdir(k)
       \/ FinalizeRmdirFolder(k)
  \/ NewFileSystemResourceLocker

\* lines 173-178: the first locker is constructed: the folder is there
InitFinal == Idle /\ retryCount \in RetryCounts

SpecFinal == InitFinal /\ [][NextFinal]_vars

\* ------------------------------------- setJitterTimeout on its own
Delays == 0..MaxDelay \cup {1000}
Jitters == (-1)..MaxJitter \cup {100}
\* lines 264-270: setJitterTimeout(delay, jitter)
setJitterTimeout(delay, jitter) ==
  /\ \E random \in Randoms : timer' = JitterTimeout(delay, jitter, random)
  /\ UNCHANGED <<locks, retryCount, pc, op, tries, state, ret, result, calls,
                 sleeps, lastRaw, mine, busy, held, firstTry, snap, flight>>
  /\ UNCHANGED <<folder, fin, setup>>

NextJitter ==
  \E delay \in Delays : \E jitter \in Jitters : setJitterTimeout(delay, jitter)

InitJitter == Idle /\ retryCount = -1

SpecJitter == InitJitter /\ [][NextJitter]_vars

\* ------------------------------------------------------- SetupHandler
\* setup.initializer, setup.registrationManager: is the component configured;
\* setup.storage: the value the storage holds for rootPodInitializedStorageKey;
\* setup.post[r]: the POST of request r, in flight or ended:
\*   pc: "idle" (none yet, or ended), or the call it awaits: "readJson" (line
\*     54), "register" (registrationManager.register, line 102), "storageGet"
\*     (line 77), "handleSafe" (line 86) once that call is made, and
\*     "await58", "await77", "await86", "await62" once what the line awaits has
\*     settled, with `flight`, and the handler has not resumed;
\*   body; read: the value initialize() got from the storage ("-": none);
\*   result: "ok" or the error handlePost threw; output; and how often the
\*   POST called initializer.handleSafe, registrationManager.validateInput and
\*   .register.
BadRequestHttpError == "BadRequestHttpError"
NotImplementedHttpError == "NotImplementedHttpError"
\* an error thrown by the initializer or by the registration manager
ComponentError == "Error"
Booleans == {"true", "false"}
JsonValues == {Undefined} \cup Booleans
\* the JSON objects a body carries, by their initialize and registration keys
Jsons == [initialize : JsonValues, registration : JsonValues]
EmptyJson == [initialize |-> Undefined, registration |-> Undefined]
Bodies == {[isEmpty |-> TRUE, json |-> EmptyJson]}
            \cup {[isEmpty |-> FALSE, json |-> j] : j \in Jsons}
\* two requests are handled at a time
Requests == {1, 2}
\* the RegistrationResponse registrationManager.register resolves with
details ==
  [email |-> "alice@test.email", createWebId |-> "true", register |-> "true",
   createPod |-> "true"]
NoOutput == [initialize |-> "-", registration |-> "-"]
ObjectAssign(target, source) ==
  [k \in DOMAIN target \cup DOMAIN source |->
     IF k \in DOMAIN source THEN source[k] ELSE target[k]]

NoRead == "-"
NoPost ==
  [pc |-> "idle", body |-> [isEmpty |-> TRUE, json |-> EmptyJson], read |-> NoRead,
   result |-> "none", output |-> NoOutput, flight |-> NoRaw,
   handleSafe |-> 0, validateInput |-> 0, register |-> 0]

\* initialize without the test of the storage
initializeNoStorageTest(h, rootPodInitialized) ==
  IF ~h.initializer THEN NotImplementedHttpError ELSE "-"
\* lines 78-85: initialize() once the storage has answered: the error it
\* throws, or "-": it goes on to call the initializer
initialize(h, rootPodInitialized) ==
  IF Truthy(rootPodInitialized) THEN BadRequestHttpError
  ELSE IF ~h.initializer THEN NotImplementedHttpError
  ELSE "-"

\* lines 94-96: register(json) at its start: the error it throws, or "-": it
\* goes on to call the registration manager
register(h) ==
  IF ~h.registrationManager THEN NotImplementedHttpError ELSE "-"

\* line 56
output0 == [initialize |-> "false", registration |-> "false"]
\* lines 58-59 and line 63: the output after a registration, an initialization
outputRegistered == [ObjectAssign(output0, details) EXCEPT !.registration = "true"]
outputInitialized == [output0 EXCEPT !.initialize = "true"]

\* handlePost that tests json.initialize first
handlePostInitializeFirst(json) ==
  IF Truthy(json.initialize) THEN "initialize"
  ELSE IF Truthy(json.registration) THEN "register"
  ELSE "none"
\* lines 57 and 60: the action handlePost takes for a body
handlePost(json) ==
  IF Truthy(json.registration) THEN "register"
  ELSE IF Truthy(json.initialize) THEN "initialize"
  ELSE "none"

setupUnchanged ==
  UNCHANGED <<locks, retryCount, pc, op, tries, state, ret, result, calls, sleeps,
              lastRaw, mine, busy, held, firstTry, snap, flight, timer, folder,
              fin>>

\* the POST of request r becomes p
Post(r, p) ==
  /\ setup' = [setup EXCEPT !.post[r] = p]
  /\ setupUnchanged

\* lines 56-62 and 94-102, 77: handlePost with its JSON, up to its next
\* await: register(json) throws, or calls validateInput, which throws or
\* returns, and then registrationManager.register; initialize() calls
\* storage.get; with neither asked for handlePost returns
Dispatch(r, p, json) ==
  LET action == handlePost(json) IN
  IF action = "register"
  THEN IF register(setup) # "-"
       THEN Post(r, [p EXCEPT !.pc = "await58", !.flight = Reject(register(setup))])
       ELSE \E valid \in BOOLEAN :
              Post(r, IF valid
                      THEN [p EXCEPT !.pc = "register", !.validateInput = @ + 1,
                                     !.register = @ + 1]
                      ELSE [p EXCEPT !.pc = "await58", !.validateInput = @ + 1,
                                     !.flight = Reject(ComponentError)])
  ELSE IF action = "initialize"
  THEN Post(r, [p EXCEPT !.pc = "storageGet"])
  ELSE Post(r, [p EXCEPT !.pc = "idle", !.result = "ok", !.output = output0])

\* lines 45-51: new SetupHandler(args)
NewSetupHandler(initializer, registrationManager) ==
  /\ ~setup.made
  /\ setup' = [made |-> TRUE, initializer |-> initializer,
               registrationManager |-> registrationManager,
               storage |-> Undefined, post |-> [r \in Requests |-> NoPost]]
  /\ setupUnchanged

\* the storage (a collaborator) has the key set
StorageSet(value) ==
  /\ setup.made
  /\ setup' = [setup EXCEPT !.storage = value]
  /\ setupUnchanged

\* lines 53-54: handlePost is called for a POST: an empty body needs no
\* await and handlePost runs on with {}; else readJsonStream is called
HandlePost(r, body) ==
  /\ setup.made
  /\ setup.post[r].pc = "idle"
  /\ LET p == [NoPost EXCEPT !.body = body] IN
     IF body.isEmpty THEN Dispatch(r, p, EmptyJson)
     ELSE Post(r, [p EXCEPT !.pc = "readJson"])

\* line 54: readJsonStream resolves and handlePost resumes
ReadJsonStream(r) ==
  /\ setup.made
  /\ setup.post[r].pc = "readJson"
  /\ Dispatch(r, setup.post[r], setup.post[r].body.json)

\* line 102: registrationManager.register settles
RegistrationManagerRegister(r) ==
  /\ setup.made
  /\ setup.post[r].pc = "register"
  /\ \E settled \in {Resolve("details"), Reject(ComponentError)} :
       Post(r, [setup.post[r] EXCEPT !.pc = "await58", !.flight = settled])

\* lines 58-59, 65-68: handlePost resumes from register(json)
AwaitRegister(r) ==
  /\ setup.made
  /\ setup.post[r].pc = "await58"
  /\ LET p == setup.post[r] IN
     Post(r, IF p.flight.ok
             THEN [p EXCEPT !.pc = "idle", !.flight = NoRaw, !.result = "ok",
                            !.output = outputRegistered]
             ELSE [p EXCEPT !.pc = "idle", !.flight = NoRaw, !.result = p.flight.val])

\* line 77: storage.get reads the storage
StorageGet(r) ==
  /\ setup.made
  /\ setup.post[r].pc = "storageGet"
  /\ Post(r, [setup.post[r] EXCEPT !.pc = "await77", !.flight = Resolve(setup.storage)])

\* lines 77-86: initialize() resumes with rootPodInitialized: it throws, or
\* calls initializer.handleSafe
AwaitStorageGet(r) ==
  /\ setup.made
  /\ setup.post[r].pc = "await77"
  /\ LET p == setup.post[r]
         threw == initialize(setup, p.flight.val)
     IN
     Post(r, IF threw # "-"
             THEN [p EXCEPT !.pc = "await62", !.read = p.flight.val,
                            !.flight = Reject(threw)]
             ELSE [p EXCEPT !.pc = "handleSafe", !.read = p.flight.val,
                            !.flight = NoRaw, !.handleSafe = @ + 1])

\* line 86: initializer.handleSafe settles
InitializerHandleSafe(r) ==
  /\ setup.made
  /\ setup.post[r].pc = "handleSafe"
  /\ \E settled \in {Resolve(Undefined), Reject(ComponentError)} :
       Post(r, [setup.post[r] EXCEPT !.pc = "await86", !.flight = settled])

\* lines 86-87: initialize() resumes from handleSafe and ends
AwaitHandleSafe(r) ==
  /\ setup.made
  /\ setup.post[r].pc = "await86"
  /\ Post(r, [setup.post[r] EXCEPT !.pc = "await62"])

\* lines 62-63, 65-68: handlePost resumes from initialize()
AwaitInitialize(r) ==
  /\ setup.made
  /\ setup.post[r].pc = "await62"
  /\ LET p == setup.post[r] IN
     Post(r, IF p.flight.ok
             THEN [p EXCEPT !.pc = "idle", !.flight = NoRaw, !.result = "ok",
                            !.output = outputInitialized]
             ELSE [p EXCEPT !.pc = "idle", !.flight = NoRaw, !.result = p.flight.val])

NextSetup ==
  \/ \E i, r \in BOOLEAN : NewSetupHandler(i, r)
  \/ \E v \in Booleans : StorageSet(v)
  \/ \E r \in Requests :
       \/ \E body \in Bodies : HandlePost(r, body)
       \/ ReadJsonStream(r)
       \/ RegistrationManagerRegister(r)
       \/ AwaitRegister(r)
       \/ StorageGet(r)
       \/ AwaitStorageGet(r)
       \/ InitializerHandleSafe(r)
       \/ AwaitHandleSafe(r)
       \/ AwaitInitialize(r)

InitSetup == Idle /\ retryCount = -1

SpecSetup == InitSetup /\ [][NextSetup]_vars

\* ================================================================ claims
Holders(p) == {c \in Callers : p \in held[c]}
IsSuccess(st) == ~st.shouldRetry /\ st.error = Undefined
IsTerminal(st) == ~st.shouldRetry /\ st.error # Undefined
IsRetryable(st) == st.shouldRetry
\* an attempt of the caller's call is in flight: fn() is called and has not
\* resolved
Flying(c) == pc[c] \in {"call", "await"}
\* the sleeps a call has made after its attempts so far, the one in flight
\* not counted
Attempted(c) == IF Flying(c) THEN calls[c] - 1 ELSE calls[c]

\* C1: mutual exclusion.  In every reachable state, for every resource path,
\* at most one caller is between the success of its acquire and the start of
\* its release.
C1_MutualExclusion ==
  \A p \in Paths : Cardinality(Holders(p)) <= 1

\* A caller holds a path while another one, having found it locked at least
\* twice, sleeps before its next attempt.
C1_Witness ==
  \E c, d \in Callers : \E p \in Paths :
    /\ c # d
    /\ p \in held[c]
    /\ op[d] = AcquireOp(p) /\ pc[d] = "sleep" /\ calls[d] >= 2

\* Callers that did not hold p, whose acquire of p made its first attempt and
\* saw no unlock of p since: the acquire calls that are concurrent with each
\* other.
FirstAttempters(p) ==
  {c \in Callers :
     op[c] = AcquireOp(p) /\ ~mine[c] /\ firstTry[c] \in {"ok", "busy"}}

C2_ExactlyOneFirst ==
  \A p \in Paths :
    (/\ FirstAttempters(p) # {}
     /\ locks[toLockfilePath(p)] \in FirstAttempters(p) \cup {0})
    => Cardinality({c \in FirstAttempters(p) : firstTry[c] = "ok"}) = 1

C2_NeverFails ==
  retryCount = -1 =>
    \A c \in Callers : op[c].kind = "acquire" => result[c].kind # "fail"

C2_LastAttempt ==
  \A d \in Callers :
    (op[d].kind = "acquire" /\ calls[d] > 0 /\ ~Flying(d)) =>
      IF busy[d]
      THEN /\ IsRetryable(state[d]) /\ state[d].error = ELOCKED
           /\ sleeps[d] = calls[d]
           /\ pc[d] = "sleep" \/ ret[d] = Throw(MaxTriesError)
           /\ pc[d] = "sleep" =>
                timer.time \in retryDelay..(retryDelay + retryJitter)
      ELSE /\ result[d] = Ok(op[d])
           /\ op[d].path \in held[d]
           /\ locks[toLockfilePath(op[d].path)] = d

\* C2: of the acquire calls on one identifier that run concurrently (no
\* release of it since they began) exactly one succeeds on its first attempt;
\* an attempt made while the lock file exists is retryable (ELOCKED) and is
\* followed by a sleep of at most retryDelay + retryJitter, with unbounded
\* retryCount no acquire fails, and an
\* attempt made when the lock file is gone (the first one after the release)
\* succeeds.
C2_ConcurrentAcquire ==
  C2_ExactlyOneFirst /\ C2_NeverFails /\ C2_LastAttempt

\* With unbounded retryCount, a caller that found the path locked on its first
\* attempt has acquired it after the holder's release succeeded.
C2_Witness ==
  \E c, d \in Callers : \E p \in Paths :
    /\ c # d /\ retryCount = -1
    /\ op[d] = AcquireOp(p) /\ firstTry[d] = "past"
    /\ result[d] = Ok(op[d]) /\ calls[d] >= 2
    /\ op[c] = ReleaseOp(p) /\ result[c] = Ok(op[c])

\* C3: for every retryCount n >= 0 a call never makes more than n + 1
\* attempts, fails with the budget-exhausted error only after exactly n + 1
\* attempts, and a call that has ended after an attempt classified retryable
\* (hence all of them were) has ended with that error after n + 1 attempts
\* and n + 1 sleeps.
C3_ExactBudget ==
  \A c \in Callers :
    retryCount >= 0 =>
      /\ calls[c] <= retryCount + 1
      /\ (ret[c] = Throw(MaxTriesError) =>
            calls[c] = retryCount + 1 /\ IsRetryable(state[c]))
      /\ (op[c] # NoOp /\ pc[c] = "idle" /\ IsRetryable(state[c]) =>
            /\ ret[c] = Throw(MaxTriesError)
            /\ calls[c] = retryCount + 1 /\ sleeps[c] = retryCount + 1)
      /\ (pc[c] = "sleep" => tries[c] = calls[c] /\ sleeps[c] = calls[c])

\* retryCount = 2: the call failed with the budget-exhausted error after 3
\* attempts.
C3_Witness ==
  \E c \in Callers :
    /\ retryCount = 2 /\ op[c].kind \in {"byError", "byBoolean"}
    /\ ret[c] = Throw(MaxTriesError) /\ calls[c] = 3 /\ sleeps[c] = 3

\* C4: after an attempt with a terminal outcome the call has ended, failing
\* with exactly the outcome's error, with no sleep after that attempt (one
\* sleep per earlier attempt) and no further attempt.
C4_TerminalPropagates ==
  \A c \in Callers :
    (calls[c] > 0 /\ IsTerminal(state[c])) =>
      /\ pc[c] = "idle"
      /\ ret[c] = Throw(state[c].error)
      /\ sleeps[c] = calls[c] - 1
      /\ tries[c] = calls[c]

\* A terminal outcome on the second attempt, with retry budget left.
C4_Witness ==
  \E c \in Callers :
    /\ retryCount = 2 /\ calls[c] = 2 /\ IsTerminal(state[c])
    /\ ret[c].kind = "throw" /\ ret[c].val \in Errors

\* C5 (as claimed): a call that ended after an attempt with a success outcome
\* returned the value the outcome carries, after no sleep since that attempt.
C5_SuccessReturnsValue ==
  \A c \in Callers :
    (calls[c] > 0 /\ IsSuccess(state[c]) /\ pc[c] = "idle") =>
      /\ ret[c] = Return(state[c].response)
      /\ sleeps[c] = calls[c] - 1

\* C6: the by-error adapter yields exactly one outcome per raw call: success
\* carrying the value for a resolved value, terminal carrying the error for a
\* rejection the stop predicate accepts (the call then fails with it at once;
\* if that was the first call, after zero retries), retryable carrying the
\* error for any other rejection.
C6_ByError ==
  \A c \in Callers :
    (op[c].kind = "byError" /\ calls[c] > 0) =>
      LET raw == lastRaw[c]
          st == state[c]
      IN
      /\ Cardinality({k \in {"s", "t", "r"} :
            \/ k = "s" /\ IsSuccess(st)
            \/ k = "t" /\ IsTerminal(st)
            \/ k = "r" /\ IsRetryable(st)}) = 1
      /\ raw.ok => IsSuccess(st) /\ st.response = raw.val
      /\ (~raw.ok /\ raw.val \in op[c].stop) =>
            /\ IsTerminal(st) /\ st.error = raw.val
            /\ pc[c] = "idle" /\ ret[c] = Throw(raw.val)
            /\ sleeps[c] = calls[c] - 1
      /\ (~raw.ok /\ raw.val \notin op[c].stop) =>
            /\ IsRetryable(st) /\ st.error = raw.val
            /\ sleeps[c] = calls[c]

\* The first raw call rejected with the code the stop predicate matches: the
\* call failed with it after one attempt and no sleep.
C6_Witness ==
  \E c \in Callers :
    /\ op[c] = ByErrorOp({"EIO"}) /\ lastRaw[c] = Reject("EIO")
    /\ calls[c] = 1 /\ sleeps[c] = 0 /\ tries[c] = 1
    /\ ret[c] = Throw("EIO") /\ retryCount = -1

\* C7: the by-boolean adapter classifies a resolved value equal to the
\* sentinel as retryable, any other resolved value as success carrying it, and
\* a rejection as terminal for either sentinel: the call then fails with that
\* error with no sleep and no attempt after it.
C7_ByBoolean ==
  \A c \in Callers :
    (op[c].kind = "byBoolean" /\ calls[c] > 0) =>
      LET raw == lastRaw[c]
          st == state[c]
      IN
      /\ (raw.ok /\ raw.val = op[c].retryValue) =>
            IsRetryable(st) /\ sleeps[c] = calls[c]
      /\ (raw.ok /\ raw.val # op[c].retryValue) =>
            IsSuccess(st) /\ st.response = raw.val
      /\ ~raw.ok =>
            /\ IsTerminal(st) /\ st.error = raw.val
            /\ pc[c] = "idle" /\ ret[c] = Throw(raw.val)
            /\ sleeps[c] = calls[c] - 1 /\ tries[c] = calls[c]

\* Sentinel false, unbounded retryCount: the first attempt threw and the call
\* failed with that error after exactly one attempt.
C7_Witness ==
  \E c \in Callers :
    /\ op[c] = ByBooleanOp("false") /\ retryCount = -1
    /\ lastRaw[c] = Reject("Error") /\ calls[c] = 1 /\ sleeps[c] = 0
    /\ ret[c] = Throw("Error")

\* C8: a release of an identifier whose lock the caller does not hold calls
\* unlock exactly once, never sleeps, and fails with the wrapped ENOTACQUIRED
\* rejection, for every retryCount.
C8_ReleaseNotHeld ==
  \A c \in Callers :
    (op[c].kind = "release" /\ ~mine[c]) =>
      /\ pc[c] # "sleep"
      /\ calls[c] = 1 /\ sleeps[c] = 0 /\ tries[c] = 1
      /\ pc[c] = "await" => flight[c] = Reject(ENOTACQUIRED)
      /\ pc[c] = "idle" =>
           /\ lastRaw[c] = Reject(ENOTACQUIRED) /\ IsTerminal(state[c])
           /\ result[c] = InternalServerError(op[c], ENOTACQUIRED)

\* With unbounded retryCount, a caller released a path that has no lock file
\* (never acquired, or released before) and failed after one unlock call.
C8_Witness ==
  \E c \in Callers :
    /\ retryCount = -1
    /\ op[c].kind = "release" /\ ~mine[c] /\ snap[c].path = NoPath
    /\ locks[toLockfilePath(op[c].path)] = 0
    /\ pc[c] = "idle" /\ result[c].kind = "fail" /\ calls[c] = 1

\* C9: an acquire of an identifier nobody holds succeeds with one lock call
\* and no sleep, the release that follows it succeeds with one unlock call and
\* no sleep, and, no other caller having touched the lock directory, the lock
\* files are then those that were there before the acquire.
C9_RoundTrip ==
  \A c \in Callers :
    LET file == toLockfilePath(op[c].path) IN
    /\ (op[c].kind = "acquire" /\ pc[c] = "idle" /\ snap[c].ok
          /\ file \notin snap[c].files) =>
         /\ result[c] = Ok(op[c])
         /\ calls[c] = 1 /\ sleeps[c] = 0
         /\ Files = snap[c].files \cup {file}
    /\ (op[c].kind = "release" /\ pc[c] = "idle" /\ snap[c].ok
          /\ snap[c].path = op[c].path) =>
         /\ result[c] = Ok(op[c])
         /\ calls[c] = 1 /\ sleeps[c] = 0
         /\ file \notin snap[c].files
         /\ Files = snap[c].files

\* A caller released the path it had acquired while another caller held the
\* other path throughout.
C9_Witness ==
  \E c \in Callers :
    /\ op[c].kind = "release" /\ pc[c] = "idle" /\ snap[c].ok
    /\ snap[c].path = op[c].path /\ result[c] = Ok(op[c])
    /\ snap[c].files # {} /\ Files = snap[c].files

C10_NoExhaustion ==
  \A c \in Callers :
    /\ ret[c] # Throw(MaxTriesError)
    /\ (op[c].kind = "acquire" /\ result[c].kind = "fail") =>
          (IsTerminal(state[c]) /\ result[c].cause = state[c].error)

C10_KeepsRetrying ==
  \A c \in Callers :
    (op[c].kind = "acquire" /\ calls[c] > 0 /\ busy[c] /\ pc[c] # "call") =>
      /\ pc[c] \in {"await", "sleep"} /\ result[c] = Pending
      /\ sleeps[c] = Attempted(c)

\* C10: with retryCount = -1 no call fails with the budget-exhausted error,
\* an acquire that fails does so with a terminal error, and an acquire whose
\* last attempt found the lock file in place is still in its loop, sleeping
\* before the next attempt.
C10_Unbounded ==
  retryCount = -1 => (C10_NoExhaustion /\ C10_KeepsRetrying)

\* retryCount = -1: an acquire has found the path locked MaxTries times and
\* is sleeping again.
C10_Witness ==
  \E c \in Callers :
    /\ retryCount = -1 /\ op[c].kind = "acquire"
    /\ pc[c] = "sleep" /\ calls[c] = MaxTries /\ tries[c] = MaxTries
    /\ result[c] = Pending

\* C11: the time setJitterTimeout waits is delay + U, where U = 0 when jitter
\* <= 0 and U is an integer in 1..jitter otherwise; hence, delay and jitter
\* being integers >= 0, the time lies in delay..(delay + jitter).
C11_JitterRange ==
  timer # NoTimer =>
    LET U == timer.time - timer.delay IN
    /\ timer.jitter <= 0 => U = 0
    /\ timer.jitter > 0 => U \in 1..timer.jitter
    /\ timer.jitter >= 0 =>
         timer.time \in timer.delay..(timer.delay + timer.jitter)

\* setJitterTimeout(1000, 100) waited more than 1050, and less than 1100.
C11_Witness ==
  /\ timer.delay = 1000 /\ timer.jitter = 100
  /\ timer.time > 1050 /\ timer.time < 1100

\* no caller has ever called acquire or release: no lock was ever taken
NeverLocked == \A c \in Callers : op[c] = NoOp

\* C12 (as claimed): when no lock was ever taken, so that the lock folder is
\* empty or missing throughout, no finalize call fails, a call after a
\* previous finalize included; a finalize call that found the folder, with
\* residual entries or empty, and was not disturbed (the folder was there at
\* its readdir and at each rmdir and held exactly the entries still to
\* remove) does not fail, and has removed every entry and then the folder
\* when it ends.
C12_Finalize ==
  \A k \in Finalizers :
    LET f == fin[k] IN
    /\ (f.called /\ NeverLocked) =>
          /\ f.result \in {"none", FinOk}
          /\ f.pc = "idle" => f.result = FinOk
    /\ (f.called /\ f.existed /\ f.quiet) =>
          /\ f.result \in {"none", FinOk} /\ f.failed = {}
          /\ f.pc = "idle" => (f.result = FinOk /\ f.todo = {})

\* C13: an acquire or release that has ended has either succeeded, its last
\* lock/unlock call having resolved, or failed with one InternalServerError
\* that names its own path and the cause: the error retryFunctionUntil threw,
\* which is the primitive's rejection for a terminal outcome and the
\* budget-exhausted error otherwise; a call whose last lock/unlock call was
\* rejected has not succeeded, and a call is pending exactly while an attempt
\* of it is in flight or it sleeps.
C13_WrappedOutcome ==
  \A c \in Callers :
    op[c].kind \in {"acquire", "release"} =>
      /\ (pc[c] # "idle") <=> (result[c] = Pending)
      /\ pc[c] = "idle" =>
           /\ result[c].kind \in {"ok", "fail"}
           /\ result[c].kind = "ok" =>
                 /\ result[c] = Ok(op[c])
                 /\ calls[c] > 0 /\ lastRaw[c].ok /\ ret[c].kind = "return"
           /\ result[c].kind = "fail" =>
                 /\ result[c] = InternalServerError(op[c], ret[c].val)
                 /\ ret[c].kind = "throw" /\ ~lastRaw[c].ok
                 /\ \/ IsTerminal(state[c]) /\ result[c].cause = lastRaw[c].val
                    \/ IsRetryable(state[c]) /\ result[c].cause = MaxTriesError
           /\ ~lastRaw[c].ok => result[c].kind = "fail"

\* One caller's acquire failed on an exhausted budget while another's release
\* of a path it did not hold failed on ENOTACQUIRED.
C13_Witness ==
  \E c, d \in Callers :
    /\ op[c].kind = "acquire" /\ result[c] = InternalServerError(op[c], MaxTriesError)
    /\ op[d].kind = "release" /\ result[d] = InternalServerError(op[d], ENOTACQUIRED)
    /\ op[c].path # op[d].path

\* C14 (as claimed): an acquire with a finite retryCount that failed on an
\* exhausted retry budget failed with an error that carries its path and the
\* last underlying cause: the error lock rejected the last attempt with.
C14_ExhaustedCarriesCause ==
  \A c \in Callers :
    (/\ retryCount >= 0 /\ op[c].kind = "acquire" /\ pc[c] = "idle"
     /\ result[c].kind = "fail" /\ ret[c] = Throw(MaxTriesError)) =>
      /\ result[c].path = op[c].path
      /\ ~lastRaw[c].ok /\ state[c].error = lastRaw[c].val
      /\ result[c].cause = state[c].error

InitializeOnly(post) ==
  Truthy(post.body.json.initialize) /\ ~Truthy(post.body.json.registration)
\* the POST fails with this error: it is thrown and on its way to the
\* request, or handlePost has rejected with it
Fails(post, error) ==
  \/ post.pc \in {"await58", "await62"} /\ post.flight = Reject(error)
  \/ post.pc = "idle" /\ post.result = error
\* initialize() has got this value from the storage
HasRead(post) == post.read # NoRead

\* C15 (as claimed): a POST that asks for initialization and no registration
\* and for which the storage answers that the root pod is initialized fails
\* with a BadRequestHttpError without a call of the initializer; a POST that
\* asks for an action (registration; initialization and no registration)
\* whose component is not configured fails with a NotImplementedHttpError.
C15_SetupErrors ==
  setup.made =>
    \A r \in Requests :
      LET post == setup.post[r] IN
      /\ (InitializeOnly(post) /\ HasRead(post) /\ Truthy(post.read)) =>
            Fails(post, BadRequestHttpError) /\ post.handleSafe = 0
      /\ (Truthy(post.body.json.registration) /\ ~setup.registrationManager
            /\ post.pc = "idle") =>
            post.result = NotImplementedHttpError
      /\ (InitializeOnly(post) /\ ~setup.initializer /\ post.pc = "idle") =>
            post.result = NotImplementedHttpError

\* C15 (amended), of every POST, in flight or ended.  What the storage
\* records is what storage.get answers at line 77: the value the storage
\* holds when it is read, which is the value initialize() tests.  A POST
\* asking for initialization and no registration to which the storage
\* answers that the root pod is initialized fails with a BadRequestHttpError
\* and never calls the initializer, whether one is configured or not; a POST
\* asking for registration of a handler without registration manager fails
\* with a NotImplementedHttpError and calls nothing; a POST asking for
\* initialization and no registration of a handler without initializer to
\* which the storage answers that the root pod is not initialized fails with
\* a NotImplementedHttpError.
C15_State ==
  setup.made =>
    \A r \in Requests :
      LET post == setup.post[r] IN
      /\ (InitializeOnly(post) /\ HasRead(post) /\ Truthy(post.read)) =>
            Fails(post, BadRequestHttpError) /\ post.handleSafe = 0
      /\ (Truthy(post.body.json.registration) /\ ~setup.registrationManager
            /\ post.pc # "readJson") =>
            /\ Fails(post, NotImplementedHttpError)
            /\ post.validateInput = 0 /\ post.register = 0 /\ post.handleSafe = 0
      /\ (InitializeOnly(post) /\ ~setup.initializer
            /\ HasRead(post) /\ ~Truthy(post.read)) =>
            Fails(post, NotImplementedHttpError) /\ post.handleSafe = 0
      /\ (InitializeOnly(post) /\ ~HasRead(post)) =>
            /\ post.pc \in {"readJson", "storageGet", "await77"}
            /\ post.result = "none" /\ post.handleSafe = 0
C15_Step ==
  setup.made =>
    \A r \in Requests :
      LET post == setup.post[r]
          next == setup'.post[r]
      IN
      /\ (post.pc = "storageGet" /\ next.pc # "storageGet") =>
            next.pc = "await77" /\ next.flight = Resolve(setup.storage)
      /\ (post.pc = "await77" /\ next.pc # "await77") =>
            next.read = post.flight.val
      /\ (HasRead(post) /\ post.pc # "idle") => next.read = post.read
      /\ (HasRead(next) /\ ~HasRead(post)) => post.pc = "await77"
C15_SetupErrorsAmended == []C15_State /\ [][C15_Step]_vars

\* A handler without initializer was asked to initialize while another POST
\* was in flight; the storage answered that the root pod is initialized and
\* the POST failed with a BadRequestHttpError; the storage has changed since.
C15_Witness ==
  /\ setup.made /\ ~setup.initializer
  /\ \E r, s \in Requests :
       /\ InitializeOnly(setup.post[r]) /\ setup.post[r].read = "true"
       /\ setup.post[r].pc = "idle"
       /\ setup.post[r].result = BadRequestHttpError
       /\ setup.post[r].handleSafe = 0
       /\ setup.storage = "false"
       /\ s # r /\ setup.post[s].pc = "await77"
       /\ setup.post[s].flight = Resolve(Undefined)

\* C16: a POST, in flight or ended, has called at most one of the
\* initializer and the registration manager, and none of their functions
\* twice.  Registration asked for (whatever initialize is): the initializer
\* is not called, and once the body is read a configured registration
\* manager has had validateInput called once and then register once, register
\* being left out only when validateInput threw, which fails the POST; only
\* initialization asked for: the registration manager is not called, and a
\* configured initializer has been called once as soon as the storage has
\* answered that the root pod is not initialized; neither (or an empty
\* body): nothing is called and the POST ends with the output
\* {initialize: false, registration: false}.  A POST has an output exactly
\* when it has succeeded, and then initialize is true exactly if the
\* initializer was called and registration exactly if the registration
\* manager was.
C16_Dispatch ==
  setup.made =>
    \A r \in Requests :
      LET post == setup.post[r]
          json == post.body.json
      IN
      /\ post.handleSafe = 0 \/ (post.validateInput = 0 /\ post.register = 0)
      /\ post.handleSafe <= 1 /\ post.register <= post.validateInput
      /\ post.validateInput <= 1
      /\ Truthy(json.registration) =>
            /\ post.handleSafe = 0
            /\ (setup.registrationManager /\ post.pc # "readJson") =>
                  /\ post.validateInput = 1
                  /\ post.register = 0 => Fails(post, ComponentError)
      /\ InitializeOnly(post) =>
            /\ post.validateInput = 0 /\ post.register = 0
            /\ (setup.initializer /\ HasRead(post) /\ ~Truthy(post.read)) =>
                  post.handleSafe = 1
      /\ (~Truthy(json.registration) /\ ~Truthy(json.initialize)) =>
            /\ post.handleSafe = 0 /\ post.validateInput = 0 /\ post.register = 0
            /\ post.pc \in {"idle", "readJson"}
            /\ (post.pc = "idle" /\ post # NoPost) =>
                  post.result = "ok" /\ post.output = output0
      /\ (post.body.isEmpty /\ post # NoPost) =>
            post.pc = "idle" /\ post.result = "ok" /\ post.output = output0
      /\ (post.output # NoOutput) <=> (post.pc = "idle" /\ post.result = "ok")
      /\ post.result = "ok" =>
            /\ (post.output.initialize = "true") <=> (post.handleSafe = 1)
            /\ (post.output.registration = "true") <=> (post.register = 1)
            /\ post.output.initialize \in Booleans
            /\ post.output.registration \in Booleans

\* A POST asking for both registration and initialization registered, left
\* the initializer alone and answered initialize: false, registration: true,
\* while the POST of another request was in the initializer.
C16_Witness ==
  /\ setup.made /\ setup.initializer /\ setup.registrationManager
  /\ \E r, s \in Requests :
       /\ setup.post[r].body.json = [initialize |-> "true", registration |-> "true"]
       /\ setup.post[r].pc = "idle" /\ setup.post[r].result = "ok"
       /\ setup.post[r].validateInput = 1 /\ setup.post[r].register = 1
       /\ setup.post[r].handleSafe = 0
       /\ setup.post[r].output.initialize = "false"
       /\ setup.post[r].output.registration = "true"
       /\ setup.post[r].output.email = details.email
       /\ s # r /\ setup.post[s].pc = "handleSafe"
       /\ setup.post[s].handleSafe = 1

\* C17 (as claimed): acquire stops on the 'already held' code and release on
\* the 'not currently held' code: an acquire attempt that lock rejected with
\* ELOCKED is terminal, a release attempt that unlock rejected with
\* ENOTACQUIRED is terminal, and the two stop predicates match different
\* codes, each only its own.
C17_StopCodes ==
  \A c \in Callers :
    /\ (op[c].kind = "acquire" /\ calls[c] > 0 /\ lastRaw[c] = Reject(ELOCKED)) =>
         /\ IsTerminal(state[c]) /\ ELOCKED \in op[c].stop
         /\ ENOTACQUIRED \notin op[c].stop
    /\ (op[c].kind = "release" /\ calls[c] > 0 /\ lastRaw[c] = Reject(ENOTACQUIRED)) =>
         /\ IsTerminal(state[c]) /\ ENOTACQUIRED \in op[c].stop
         /\ ELOCKED \notin op[c].stop

\* C17 (amended): acquire and release run their primitive through the
\* by-error adapter with one and the same stop predicate, which matches the
\* 'not currently held' code only: a release attempt rejected with
\* ENOTACQUIRED is terminal, an acquire attempt rejected with ELOCKED
\* ('already held') is retryable and is followed by a sleep.
C17_StopCodesAmended ==
  \A c \in Callers :
    /\ op[c].kind \in {"acquire", "release"} => op[c].stop = {ENOTACQUIRED}
    /\ (op[c].kind = "acquire" /\ calls[c] > 0 /\ lastRaw[c] = Reject(ELOCKED)) =>
         /\ IsRetryable(state[c]) /\ state[c].error = ELOCKED
         /\ sleeps[c] = Attempted(c)
    /\ (op[c].kind = "release" /\ calls[c] > 0 /\ lastRaw[c] = Reject(ENOTACQUIRED)) =>
         /\ IsTerminal(state[c]) /\ pc[c] = "idle"
         /\ ret[c] = Throw(ENOTACQUIRED)

\* An acquire sleeps after lock rejected it with ELOCKED while a release by
\* the holder, of a path it does not hold, has failed on ENOTACQUIRED.
C17_Witness ==
  \E c, d \in Callers :
    /\ c # d
    /\ op[d].kind = "acquire" /\ lastRaw[d] = Reject(ELOCKED) /\ pc[d] = "sleep"
    /\ locks[toLockfilePath(op[d].path)] = c
    /\ op[c].kind = "release" /\ lastRaw[c] = Reject(ENOTACQUIRED)
    /\ result[c].kind = "fail"

C18_State ==
  \A c \in Callers :
    calls[c] > 0 =>
      /\ pc[c] = "sleep" =>
           IsRetryable(state[c]) /\ sleeps[c] = calls[c] /\ tries[c] = calls[c]
      /\ (pc[c] = "idle" /\ IsRetryable(state[c])) =>
           /\ sleeps[c] = calls[c] /\ tries[c] = calls[c] + 1
           /\ ret[c] = Throw(MaxTriesError)
      /\ ~IsRetryable(state[c]) =>
           pc[c] = "idle" /\ sleeps[c] = calls[c] - 1 /\ tries[c] = calls[c]
      /\ sleeps[c] > 0 =>
           /\ timer.delay = retryDelay /\ timer.jitter = retryJitter
           /\ timer.time \in (retryDelay + 1)..(retryDelay + retryJitter - 1)

\* The step's attempt is followed by a setJitterTimeout(retryDelay,
\* retryJitter) call exactly if its outcome is retryable.
C18_Timer(c) ==
  IF IsRetryable(state'[c])
  THEN \E random \in Randoms :
         timer' = JitterTimeout(retryDelay, retryJitter, random)
  ELSE timer' = timer

C18_Step ==
  \A c \in Callers :
    IF pc[c] = "sleep"
    THEN (calls'[c] # calls[c] \/ pc'[c] # pc[c]) =>
           /\ IsRetryable(state[c])
           /\ tries'[c] = tries[c] + 1
           /\ \/ /\ calls'[c] = calls[c] + 1
                 /\ sleeps'[c] = sleeps[c] + (IF IsRetryable(state'[c]) THEN 1 ELSE 0)
                 /\ pc'[c] = "sleep" <=> IsRetryable(state'[c])
                 /\ C18_Timer(c)
              \/ /\ calls'[c] = calls[c] /\ sleeps'[c] = sleeps[c]
                 /\ pc'[c] = "idle" /\ ret'[c] = Throw(MaxTriesError)
                 /\ timer' = timer
    ELSE (op'[c] # op[c] \/ calls'[c] # calls[c] \/ pc'[c] # pc[c]) =>
           /\ calls'[c] = 1 /\ tries'[c] = 1
           /\ sleeps'[c] = (IF IsRetryable(state'[c]) THEN 1 ELSE 0)
           /\ C18_Timer(c)

\* C18: within one retryFunctionUntil call an attempt is made only when the
\* call begins or when the sleep that followed a retryable outcome is over,
\* which adds one to tries; every retryable outcome is followed by exactly
\* one sleep (a setJitterTimeout call with the settings' retryDelay and
\* retryJitter, handing retryDelay + 1 .. retryDelay + retryJitter - 1 to
\* setTimeout), the one before the budget-exhausted error included, and no
\* sleep follows a success or a terminal outcome: the call has then ended.
C18_SleepBetweenAttempts ==
  []C18_State /\ [][C18_Step]_vars

\* Two retryable outcomes, each followed by a sleep, then a success on the
\* third attempt and no sleep after it.
C18_Witness ==
  \E c \in Callers :
    /\ op[c].kind \in {"byError", "byBoolean"}
    /\ calls[c] = 3 /\ sleeps[c] = 2 /\ tries[c] = 3
    /\ IsSuccess(state[c]) /\ pc[c] = "idle" /\ ret[c].kind = "return"

\* C19: for every retryCount n >= 0 a call never makes more than n + 1
\* attempts, and, every sleep returning, a call that sleeps ends: with a
\* returned value, a terminal error or the budget-exhausted error.
C19_BoundedAndTerminates ==
  /\ [](\A c \in Callers : retryCount >= 0 => calls[c] <= retryCount + 1)
  /\ \A c \in EngineCallers :
       (retryCount >= 0 /\ pc[c] = "sleep")
         ~> (pc[c] = "idle" /\ ret[c].kind \in {"return", "throw"})

\* retryCount = 1: after a retryable first outcome the call ended on its
\* second attempt, with a terminal error.
C19_Witness ==
  \E c \in Callers :
    /\ retryCount = 1 /\ op[c].kind \in {"byError", "byBoolean"}
    /\ calls[c] = 2 /\ sleeps[c] = 1 /\ pc[c] = "idle"
    /\ IsTerminal(state[c]) /\ ret[c].kind = "throw"

C20_State ==
  \A c \in Callers :
    (op[c].kind = "acquire" /\ result[c].kind = "fail") =>
      /\ op[c].path \in held[c] <=> mine[c]
      /\ locks[toLockfilePath(op[c].path)] = c <=> mine[c]

C20_Step ==
  \A c \in Callers :
    (pc'[c] # pc[c] /\ op'[c].kind \in {"acquire", "release"}) =>
      /\ (~flight'[c].ok \/ ~flight[c].ok \/ result'[c].kind = "fail") =>
           locks' = locks /\ held' = held
      /\ locks' # locks => (flight'[c].ok /\ flight'[c] # NoRaw)
      /\ (pc[c] = "await" /\ flight[c].ok) => result'[c] = Ok(op[c])

\* C20: a step of an acquire or release in which the primitive rejects, its
\* rejection is delivered or the call fails changes no lock file and no
\* caller's holding, and a call changes a lock file only in the step in
\* which its lock/unlock succeeds, after which the call succeeds: the lock
\* files after a failed acquire or release are those before it, the holder's
\* among them, and a caller whose acquire failed holds the path only if it
\* held it before the call.
C20_FailureLeavesLocks ==
  []C20_State /\ [][C20_Step]_vars

\* An acquire has failed on an exhausted budget; the holder's lock file is
\* still there.
C20_Witness ==
  \E c, d \in Callers :
    /\ c # d /\ op[d].kind = "acquire"
    /\ result[d] = InternalServerError(op[d], MaxTriesError)
    /\ op[d].path \in held[c] /\ locks[toLockfilePath(op[d].path)] = c
    /\ held[d] = {}

\* Nobody holds p and no other caller's attempt on p is in flight.
Free(c, p) ==
  /\ Holders(p) = {}
  /\ \A d \in Callers \ {c} : ~(Flying(d) /\ op[d].path = p)

C21_State ==
  \A c \in Callers :
    (op[c].kind = "acquire" /\ firstTry[c] = "ok" /\ pc[c] = "idle") =>
      /\ result[c] = Ok(op[c]) /\ calls[c] = 1 /\ sleeps[c] = 0

C21_Step ==
  \A c \in Callers :
    LET p == op'[c].path IN
    (pc'[c] # pc[c] /\ op'[c].kind \in {"acquire", "release"}) =>
      /\ \A q \in Paths \ {p} :
           /\ locks'[toLockfilePath(q)] = locks[toLockfilePath(q)]
           /\ \A d \in Callers : q \in held'[d] <=> q \in held[d]
      /\ (op[c].kind = "acquire" /\ pc[c] = "call" /\ calls[c] = 1) =>
           /\ Free(c, p) =>
                /\ flight'[c] = Resolve(ReleaseFn) /\ firstTry'[c] = "ok"
                /\ locks'[toLockfilePath(p)] = c
           /\ Holders(p) # {} =>
                /\ flight'[c] = Reject(ELOCKED) /\ firstTry'[c] = "busy"
                /\ locks' = locks

\* C21: a step of an acquire or release on a path leaves the lock file and
\* the holders of every other path as they were; an acquire of a free path
\* (nobody holds it and no other caller's attempt on it is in flight)
\* succeeds on its first attempt, whatever other paths are held and by whom,
\* and an acquire of a path somebody holds (the same path, hence the same
\* lock file) finds it locked on its first attempt.
C21_Independent ==
  []C21_State /\ [][C21_Step]_vars

\* Both paths are held, by different callers, each acquired on the first
\* attempt, the second while the first was held.
C21_Witness ==
  \E c, d \in Callers : \E p, q \in Paths :
    /\ c # d /\ p # q
    /\ held[c] = {p} /\ held[d] = {q}
    /\ op[d] = AcquireOp(q) /\ result[d] = Ok(op[d]) /\ calls[d] = 1
    /\ snap[d].ok /\ toLockfilePath(p) \in snap[d].files

\* C22: an acquire by a caller that holds the identifier's lock goes as one
\* by any other caller does while the lock is held: every attempt is
\* rejected with ELOCKED, a retryable outcome followed by a sleep, and the
\* call never succeeds; the lock stays the caller's.  With retryCount = -1
\* the call is forever between attempts; otherwise it makes retryCount + 1
\* attempts and fails with the budget-exhausted error, wrapped.
C22_NoReentrancy ==
  \A c \in Callers :
    /\ (op[c].kind = "acquire" /\ calls[c] > 0 /\ busy[c] /\ pc[c] # "call") =>
         /\ result[c].kind # "ok" /\ sleeps[c] = Attempted(c)
         /\ pc[c] = "await" => flight[c] = Reject(ELOCKED)
         /\ pc[c] # "await" =>
              lastRaw[c] = Reject(ELOCKED) /\ IsRetryable(state[c])
         /\ retryCount = -1 => (pc[c] # "idle" /\ result[c] = Pending)
         /\ retryCount >= 0 =>
              /\ calls[c] <= retryCount + 1
              /\ pc[c] = "idle" =>
                   /\ calls[c] = retryCount + 1
                   /\ result[c] = InternalServerError(op[c], MaxTriesError)
    /\ (op[c].kind = "acquire" /\ mine[c]) =>
         /\ op[c].path \in held[c]
         /\ locks[toLockfilePath(op[c].path)] = c
         /\ (pc[c] # "call" \/ calls[c] > 1) => (busy[c] /\ firstTry[c] = "busy")

\* retryCount = 1: the holder's second acquire failed with the
\* budget-exhausted error after two attempts; it still holds the lock.
C22_Witness ==
  \E c \in Callers :
    /\ retryCount = 1 /\ op[c].kind = "acquire" /\ mine[c]
    /\ calls[c] = 2 /\ sleeps[c] = 2 /\ pc[c] = "idle"
    /\ result[c] = InternalServerError(op[c], MaxTriesError)
    /\ op[c].path \in held[c]

\* C23 (as claimed): finalize isolates a failed removal: when it has ended,
\* it has tried every entry readdir listed, so that every listed entry but
\* those whose removal was rejected has been removed by it.
C23_PerEntryIsolation ==
  \A k \in Finalizers :
    (fin[k].called /\ fin[k].existed /\ fin[k].pc = "idle") =>
      fin[k].todo \ fin[k].failed = {}
====
